---- MODULE Spec2Model ----
(***************************************************************************)
(* Model of src/core/mintBudget.js: imposing a Cred minting budget on a    *)
(* weighted graph.  applyBudget and its helpers are translated statement   *)
(* by statement; numbers are exact rationals, so rounding of IEEE doubles  *)
(* is outside the model.                                                   *)
(***************************************************************************)
EXTENDS Integers, Sequences, FiniteSets, TLC

VARIABLES
    pc,           \* position of the running call
    budget,       \* the Budget policy passed to applyBudget (input)
    wg,           \* the WeightedGraph passed to applyBudget (input)
    entryIdx,     \* index of the next entry budget.entries.map will visit
    reweighting,  \* Reweight records collected so far
    newWeights,   \* the mapping made by Weights.copy, Null before the copy
    result,       \* what applyBudget returned or threw, Null while running
    log,          \* the checks, lookups and writes performed so far, in order
    args,         \* arguments of a direct call of a helper
    ret           \* value returned by a direct call of a helper

vars ==
    <<pc, budget, wg, entryIdx, reweighting, newWeights, result, log, args, ret>>

(***************************** bounds **************************************)
MaxEntries == 2     \* entries per policy
MaxPeriods == 2     \* periods per entry
MaxBudget == 1      \* budgets range over 0..MaxBudget
MaxWeight == 2      \* node weights range over 0..MaxWeight (or unset)
NumWeeks == 2       \* weekly buckets the node timestamps spread over
MaxPrefixLen == 1   \* parts per entry prefix
MaxAddrs == 3       \* addresses handed to _anyCommonPrefixes
MaxAddrLen == 2     \* parts per address handed to _anyCommonPrefixes
MaxAws == 2         \* AddressWeights handed to _computeWeightNormalizer

(*************************** exact numbers *********************************)
RECURSIVE Gcd(_, _)
Gcd(a, b) == IF b = 0 THEN a ELSE Gcd(b, a % b)

\* A number is n/d in lowest terms, d >= 0; 1/0 is JavaScript's Infinity.
Num(x) == [n |-> x, d |-> 1]
Infinity == [n |-> 1, d |-> 0]
Reduce(n, d) ==
    LET g == Gcd(n, d) IN
    IF g = 0 THEN [n |-> 0, d |-> 1] ELSE [n |-> n \div g, d |-> d \div g]
Le(x, y) == x.n * y.d <= y.n * x.d
Lt(x, y) == x.n * y.d < y.n * x.d
Add(x, y) == Reduce(x.n * y.d + y.n * x.d, x.d * y.d)
Mul(x, y) == Reduce(x.n * y.n, x.d * y.d)
Div(x, y) == Reduce(x.n * y.d, x.d * y.n)

RECURSIVE SumSeq(_)
SumSeq(s) == IF s = <<>> THEN Num(0) ELSE Add(Head(s), SumSeq(Tail(s)))

(***************************** addresses ***********************************)
Tokens == {"a", "b"}

SeqsUpTo(S, n) == UNION {[1..k -> S] : k \in 0..n}

\* NodeAddress.hasPrefix(address, prefix): prefix's parts lead address's parts.
HasPrefix(address, prefix) ==
    /\ Len(prefix) <= Len(address)
    /\ \A k \in 1..Len(prefix) : address[k] = prefix[k]

(************************** _anyCommonPrefixes *****************************)
\* Faulty variant: the second hasPrefix test is missing.
AnyCommonPrefixesOneWay(addresses) ==
    \E i \in 1..Len(addresses) : \E j \in i..Len(addresses) :
        /\ i # j
        /\ HasPrefix(addresses[i], addresses[j])

\* for i in 0..n-1, for j in i..n-1, skipping i = j: return true on the first
\* pair where either address has the other as a prefix; false otherwise.
AnyCommonPrefixes(addresses) ==
    \E i \in 1..Len(addresses) : \E j \in i..Len(addresses) :
        /\ i # j
        /\ \/ HasPrefix(addresses[i], addresses[j])
           \/ HasPrefix(addresses[j], addresses[i])

(***************************** inSortedOrder *******************************)
\* last starts at -Infinity, so the first element never fails x < last.
RECURSIVE InSortedOrderFrom(_, _, _)
InSortedOrderFrom(xs, k, last) ==
    IF k > Len(xs) THEN TRUE
    ELSE IF xs[k] < last THEN FALSE
    ELSE InSortedOrderFrom(xs, k + 1, xs[k])

\* Faulty variant: "x <= last" rejects two periods that start together.
InSortedOrderStrict(xs) ==
    \A k \in 1..(Len(xs) - 1) : xs[k] < xs[k + 1]

InSortedOrder(xs) ==
    IF xs = <<>> THEN TRUE ELSE InSortedOrderFrom(xs, 2, xs[1])

(*************************** _findCurrentBudget ****************************)
RECURSIVE FindLoopStrict(_, _, _, _)
FindLoopStrict(periods, timestamp, currentIndex, currentBudget) ==
    IF /\ currentIndex + 1 <= Len(periods)
       /\ periods[currentIndex + 1].startTimeMs < timestamp
    THEN FindLoopStrict(periods, timestamp, currentIndex + 1,
                        periods[currentIndex + 1].budget)
    ELSE currentBudget

\* The while loop; currentIndex is the 1-based index of the period last taken
\* (0 for the code's -1).
RECURSIVE FindLoop(_, _, _, _)
FindLoop(periods, timestamp, currentIndex, currentBudget) ==
    IF /\ currentIndex + 1 <= Len(periods)
       /\ periods[currentIndex + 1].startTimeMs <= timestamp
    THEN FindLoop(periods, timestamp, currentIndex + 1,
                  periods[currentIndex + 1].budget)
    ELSE currentBudget

FindCurrentBudget(periods, timestamp) ==
    FindLoop(periods, timestamp, 0, Infinity)

(************************ _computeWeightNormalizer *************************)
TotalWeight(aws) == SumSeq([k \in 1..Len(aws) |-> aws[k].weight])

\* Faulty variant: the quotient is taken the wrong way round.
ComputeWeightNormalizerInverted(aws, b) ==
    LET totalWeight == TotalWeight(aws) IN
    IF Le(totalWeight, b) THEN Num(1) ELSE Div(totalWeight, b)

ComputeWeightNormalizer(aws, b) ==
    LET totalWeight == TotalWeight(aws) IN
    IF Le(totalWeight, b) THEN Num(1) ELSE Div(b, totalWeight)

(***************************** collaborators *******************************)
\* Length of a week in timestamp units (d3's utcWeek).
WeekMs == 2

\* The graph's node addresses, in the graph's iteration order.
NodeAddrSeq == << <<"a", "b">>, <<"b">> >>
NodeAddrs == {NodeAddrSeq[k] : k \in 1..Len(NodeAddrSeq)}

\* null / undefined
Null == [null |-> TRUE]

\* Map.get: the value, or undefined.
Get(map, key) == IF key \in DOMAIN map THEN map[key] ELSE Null

\* Map.set
Set(map, key, value) ==
    [k \in DOMAIN map \cup {key} |-> IF k = key THEN value ELSE map[k]]

\* NullUtil.orElse
OrElse(x, default) == IF x = Null THEN default ELSE x

\* Weights.copy: an independent mapping with the same entries.
Copy(weights) == [nodeWeights |-> weights.nodeWeights]

\* nodeWeightEvaluator(weights): an address's weight, 1 when unset.
Evaluator(weights, a) == OrElse(Get(weights.nodeWeights, a), Num(1))

WeekStart(ts) == (ts \div WeekMs) * WeekMs

\* The nodes of the graph, as {address, timestampMs}, in iteration order.
GraphNodes(graph) ==
    LET present == SelectSeq(NodeAddrSeq, LAMBDA a : a \in DOMAIN graph) IN
    [k \in 1..Len(present) |->
        [address |-> present[k], timestampMs |-> graph[present[k]]]]

\* partitionGraph: consecutive weekly intervals from the earliest node's week
\* to the latest node's week, each with the nodes whose timestamp it holds.
PartitionGraph(graph) ==
    IF DOMAIN graph = {} THEN <<>>
    ELSE
        LET weeks == {graph[a] \div WeekMs : a \in DOMAIN graph}
            first == CHOOSE w \in weeks : \A v \in weeks : w <= v
            last == CHOOSE w \in weeks : \A v \in weeks : v <= w
        IN [k \in 1..(last - first + 1) |->
               LET start == (first + k - 1) * WeekMs IN
               [interval |-> [startTimeMs |-> start],
                nodes |-> SelectSeq(GraphNodes(graph),
                              LAMBDA n : WeekStart(n.timestampMs) = start)]]

(************************** _reweightingForEntry ***************************)
Event(op, prefix, at) == [op |-> op, prefix |-> prefix, at |-> at]

\* Faulty variant: the budget is looked up at the end of the interval.
BucketReweightingAtEnd(weights, bucket, entry) ==
    LET b == FindCurrentBudget(entry.periods,
                               bucket.interval.startTimeMs + WeekMs)
        addresses == [k \in 1..Len(bucket.nodes) |-> bucket.nodes[k].address]
        filteredAddresses ==
            SelectSeq(addresses, LAMBDA a : HasPrefix(a, entry.prefix))
        addressWeights ==
            [k \in 1..Len(filteredAddresses) |->
                [address |-> filteredAddresses[k],
                 weight |-> Evaluator(weights, filteredAddresses[k])]]
        normalizer == ComputeWeightNormalizer(addressWeights, b)
    IN IF normalizer # Num(1)
       THEN [k \in 1..Len(filteredAddresses) |->
                [address |-> filteredAddresses[k], weight |-> normalizer]]
       ELSE <<>>

\* Faulty variant: the Reweight records are pushed for every address of the bucket.
BucketReweightingUnfiltered(weights, bucket, entry) ==
    LET b == FindCurrentBudget(entry.periods, bucket.interval.startTimeMs)
        addresses == [k \in 1..Len(bucket.nodes) |-> bucket.nodes[k].address]
        filteredAddresses ==
            SelectSeq(addresses, LAMBDA a : HasPrefix(a, entry.prefix))
        addressWeights ==
            [k \in 1..Len(filteredAddresses) |->
                [address |-> filteredAddresses[k],
                 weight |-> Evaluator(weights, filteredAddresses[k])]]
        normalizer == ComputeWeightNormalizer(addressWeights, b)
    IN IF normalizer # Num(1)
       THEN [k \in 1..Len(addresses) |->
                [address |-> addresses[k], weight |-> normalizer]]
       ELSE <<>>

\* One iteration of "for (const {interval, nodes} of partition)": the budget
\* of the bucket, the addresses under the prefix, their weights, the
\* normalizer and, unless it is 1, a Reweight for every such address.
BucketReweighting(weights, bucket, entry) ==
    LET b == FindCurrentBudget(entry.periods, bucket.interval.startTimeMs)
        addresses == [k \in 1..Len(bucket.nodes) |-> bucket.nodes[k].address]
        filteredAddresses ==
            SelectSeq(addresses, LAMBDA a : HasPrefix(a, entry.prefix))
        addressWeights ==
            [k \in 1..Len(filteredAddresses) |->
                [address |-> filteredAddresses[k],
                 weight |-> Evaluator(weights, filteredAddresses[k])]]
        normalizer == ComputeWeightNormalizer(addressWeights, b)
    IN IF normalizer # Num(1)
       THEN [k \in 1..Len(filteredAddresses) |->
                [address |-> filteredAddresses[k], weight |-> normalizer]]
       ELSE <<>>

BucketEvents(bucket, entry) ==
    << Event("_findCurrentBudget", entry.prefix, <<bucket.interval.startTimeMs>>),
       Event("_computeWeightNormalizer", entry.prefix,
             <<bucket.interval.startTimeMs>>) >>

RECURSIVE PartitionLoop(_, _, _, _)
PartitionLoop(weights, partition, entry, k) ==
    IF k > Len(partition) THEN [results |-> <<>>, events |-> <<>>]
    ELSE LET rest == PartitionLoop(weights, partition, entry, k + 1) IN
         [results |-> BucketReweighting(weights, partition[k], entry)
                          \o rest.results,
          events |-> BucketEvents(partition[k], entry) \o rest.events]

\* Faulty variant: the sortedness check runs after the loop over the partition.
ReweightingForEntryLateCheck(weights, partition, entry) ==
    LET starts == [k \in 1..Len(entry.periods) |-> entry.periods[k].startTimeMs]
        check == <<Event("inSortedOrder", entry.prefix, <<>>)>>
        loop == PartitionLoop(weights, partition, entry, 1)
    IN IF ~InSortedOrder(starts)
       THEN [threw |-> TRUE, results |-> <<>>, events |-> loop.events \o check]
       ELSE [threw |-> FALSE, results |-> loop.results,
             events |-> loop.events \o check]

\* The sortedness check of the entry's periods, then the loop over the
\* partition.  threw says that the periods out-of-order error was thrown.
ReweightingForEntry(weights, partition, entry) ==
    LET starts == [k \in 1..Len(entry.periods) |-> entry.periods[k].startTimeMs]
        check == <<Event("inSortedOrder", entry.prefix, <<>>)>>
    IN IF ~InSortedOrder(starts)
       THEN [threw |-> TRUE, results |-> <<>>, events |-> check]
       ELSE LET loop == PartitionLoop(weights, partition, entry, 1) IN
            [threw |-> FALSE, results |-> loop.results,
             events |-> check \o loop.events]

(******************************* applyBudget *******************************)
\* Faulty variant: no copy was made, the records are written to the caller's mapping.
RECURSIVE MaterializeInPlace(_, _, _)
MaterializeInPlace(input, output, rws) ==
    IF rws = <<>> THEN [input |-> input, output |-> input]
    ELSE LET existingWeight ==
                 OrElse(Get(input.nodeWeights, Head(rws).address), Num(1))
             written ==
                 [nodeWeights |-> Set(input.nodeWeights, Head(rws).address,
                                      Mul(existingWeight, Head(rws).weight))]
         IN MaterializeInPlace(written, written, Tail(rws))

\* Faulty variant: the record's weight is stored as it is, not multiplied in.
RECURSIVE MaterializeNoMultiply(_, _, _)
MaterializeNoMultiply(input, output, rws) ==
    IF rws = <<>> THEN [input |-> input, output |-> output]
    ELSE MaterializeNoMultiply(
             input,
             [nodeWeights |-> Set(output.nodeWeights, Head(rws).address,
                                  Head(rws).weight)],
             Tail(rws))

\* "for (const {address, weight} of reweighting)": each record sets, in the
\* copied mapping, the address's weight in the input mapping (1 when unset)
\* times the record's weight.  input is the caller's mapping, output the copy.
RECURSIVE Materialize(_, _, _)
Materialize(input, output, rws) ==
    IF rws = <<>> THEN [input |-> input, output |-> output]
    ELSE LET existingWeight ==
                 OrElse(Get(input.nodeWeights, Head(rws).address), Num(1))
         IN Materialize(
                input,
                [nodeWeights |-> Set(output.nodeWeights, Head(rws).address,
                                     Mul(existingWeight, Head(rws).weight))],
                Tail(rws))

Error(message, prefix) == [kind |-> "error", message |-> message, prefix |-> prefix]

(******************************** inputs ***********************************)
StartTimes == {0, WeekMs - 1}
Timestamps == {w * WeekMs + 1 : w \in 0..(NumWeeks - 1)}
Periods == [startTimeMs : StartTimes, budget : {Num(b) : b \in 0..MaxBudget}]
Prefixes == SeqsUpTo(Tokens, MaxPrefixLen)
Entries == [prefix : Prefixes, periods : SeqsUpTo(Periods, MaxPeriods)]
Policies ==
    [entries : SeqsUpTo(Entries, MaxEntries), intervalLength : {"WEEKLY", "DAILY"}]
Graphs == UNION {[S -> Timestamps] : S \in SUBSET NodeAddrs}
WeightMaps(graph) ==
    UNION {[S -> {Num(w) : w \in 0..MaxWeight}] : S \in SUBSET (DOMAIN graph)}

Addresses == SeqsUpTo(Tokens, MaxAddrLen)
FindPeriods == [startTimeMs : 0..NumWeeks, budget : {Num(b) : b \in 0..MaxBudget}]
FindTimestamps == 0..(NumWeeks + 1)
AddressWeights == [address : NodeAddrs, weight : {Num(w) : w \in 0..MaxWeight}]

Idle == "idle"

(******************************** actions **********************************)
Init ==
    /\ pc = "start"
    /\ budget \in Policies
    /\ \E graph \in Graphs : \E nodeWeights \in WeightMaps(graph) :
           wg = [graph |-> graph, weights |-> [nodeWeights |-> nodeWeights]]
    /\ entryIdx = 0
    /\ reweighting = <<>>
    /\ newWeights = Null
    /\ result = Null
    /\ log = <<>>
    /\ args = Idle
    /\ ret = Idle

\* applyBudget up to the call of _computeReweighting: the prefix check, the
\* interval length check, the copy of the weights.
Validate ==
    /\ pc = "start"
    /\ LET prefixes == [k \in 1..Len(budget.entries) |-> budget.entries[k].prefix]
           checkedPrefixes == <<Event("_anyCommonPrefixes", <<>>, <<>>)>>
           checkedLength == checkedPrefixes \o <<Event("intervalLength", <<>>, <<>>)>>
       IN IF AnyCommonPrefixes(prefixes)
          THEN /\ result' = Error("budget prefix conflict detected", <<>>)
               /\ pc' = "failed"
               /\ log' = checkedPrefixes
               /\ UNCHANGED <<newWeights, entryIdx>>
          ELSE IF budget.intervalLength # "WEEKLY"
          THEN /\ result' = Error("non-weekly budgets not supported", <<>>)
               /\ pc' = "failed"
               /\ log' = checkedLength
               /\ UNCHANGED <<newWeights, entryIdx>>
          ELSE /\ newWeights' = Copy(wg.weights)
               /\ entryIdx' = 1
               /\ pc' = "entries"
               /\ log' = checkedLength
               /\ UNCHANGED result
    /\ UNCHANGED <<budget, wg, reweighting, args, ret>>

\* One callback of budget.entries.map in _computeReweighting.
ReweightEntry ==
    /\ pc = "entries"
    /\ entryIdx <= Len(budget.entries)
    /\ LET entry == budget.entries[entryIdx]
           r == ReweightingForEntry(wg.weights, PartitionGraph(wg.graph), entry)
       IN /\ log' = log \o r.events
          /\ IF r.threw
             THEN /\ result' = Error("periods out-of-order", entry.prefix)
                  /\ pc' = "failed"
                  /\ UNCHANGED <<reweighting, entryIdx>>
             ELSE /\ reweighting' = reweighting \o r.results
                  /\ entryIdx' = entryIdx + 1
                  /\ UNCHANGED <<result, pc>>
    /\ UNCHANGED <<budget, wg, newWeights, args, ret>>

\* The flattened reweighting is written to the copy and the graph returned.
Return ==
    /\ pc = "entries"
    /\ entryIdx > Len(budget.entries)
    /\ LET m == Materialize(wg.weights, newWeights, reweighting) IN
          /\ wg' = [wg EXCEPT !.weights = m.input]
          /\ newWeights' = m.output
          /\ result' = [kind |-> "ok", graph |-> wg.graph, weights |-> m.output]
          /\ log' = log \o [k \in 1..Len(reweighting) |->
                               Event("set", reweighting[k].address, <<>>)]
    /\ pc' = "done"
    /\ UNCHANGED <<budget, entryIdx, reweighting, args, ret>>

Next == Validate \/ ReweightEntry \/ Return

Spec == Init /\ [][Next]_vars

(************************ direct calls of the helpers **********************)
NoApplyBudget ==
    /\ budget = Idle
    /\ wg = Idle
    /\ entryIdx = 0
    /\ reweighting = <<>>
    /\ newWeights = Null
    /\ result = Null
    /\ log = <<>>

InitAnyCommonPrefixes ==
    /\ pc = "call"
    /\ args \in [addresses : SeqsUpTo(Addresses, MaxAddrs)]
    /\ ret = Idle
    /\ NoApplyBudget

CallAnyCommonPrefixes ==
    /\ pc = "call"
    /\ ret' = AnyCommonPrefixes(args.addresses)
    /\ pc' = "returned"
    /\ UNCHANGED <<budget, wg, entryIdx, reweighting, newWeights, result, log, args>>

SpecAnyCommonPrefixes ==
    InitAnyCommonPrefixes /\ [][CallAnyCommonPrefixes]_vars

InitFindCurrentBudget ==
    /\ pc = "call"
    /\ args \in [periods : SeqsUpTo(FindPeriods, MaxPeriods + 1),
                 timestamp : FindTimestamps]
    /\ ret = Idle
    /\ NoApplyBudget

CallFindCurrentBudget ==
    /\ pc = "call"
    /\ ret' = FindCurrentBudget(args.periods, args.timestamp)
    /\ pc' = "returned"
    /\ UNCHANGED <<budget, wg, entryIdx, reweighting, newWeights, result, log, args>>

SpecFindCurrentBudget ==
    InitFindCurrentBudget /\ [][CallFindCurrentBudget]_vars

InitComputeWeightNormalizer ==
    /\ pc = "call"
    /\ args \in [aws : SeqsUpTo(AddressWeights, MaxAws),
                 budget : {Num(b) : b \in 0..MaxBudget} \cup {Infinity}]
    /\ ret = Idle
    /\ NoApplyBudget

CallComputeWeightNormalizer ==
    /\ pc = "call"
    /\ ret' = ComputeWeightNormalizer(args.aws, args.budget)
    /\ pc' = "returned"
    /\ UNCHANGED <<budget, wg, entryIdx, reweighting, newWeights, result, log, args>>

SpecComputeWeightNormalizer ==
    InitComputeWeightNormalizer /\ [][CallComputeWeightNormalizer]_vars

(******************************** claims ***********************************)
\* a's parts are a leading subsequence of b's parts.
IsPrefixOf(a, b) == Len(a) <= Len(b) /\ SubSeq(b, 1, Len(a)) = a

Reorderings(l) ==
    {[k \in 1..Len(l) |-> l[f[k]]] :
        f \in {g \in [1..Len(l) -> 1..Len(l)] :
                  \A x, y \in 1..Len(l) : g[x] = g[y] => x = y}}

NonDecreasing(periods) ==
    \A i, j \in 1..Len(periods) :
        i < j => periods[i].startTimeMs <= periods[j].startTimeMs

\* C5: for periods non-decreasing by start time, _findCurrentBudget returns
\* the budget of the period at the greatest index whose start time is <= the
\* timestamp, and Infinity when there is no such period.
FindCurrentBudgetTakesLastStarted ==
    (pc = "returned" /\ NonDecreasing(args.periods)) =>
        LET started == {i \in 1..Len(args.periods) :
                           args.periods[i].startTimeMs <= args.timestamp}
        IN IF started = {}
           THEN ret = Infinity
           ELSE ret = args.periods[CHOOSE i \in started :
                                       \A j \in started : j <= i].budget

\* Two periods start together at the timestamp with different budgets, and a
\* later period has not started yet.
FindCurrentBudgetTieWitness ==
    /\ pc = "returned"
    /\ NonDecreasing(args.periods)
    /\ Len(args.periods) = 3
    /\ args.periods[1].startTimeMs = args.timestamp
    /\ args.periods[2].startTimeMs = args.timestamp
    /\ args.periods[1].budget # args.periods[2].budget
    /\ args.periods[3].startTimeMs > args.timestamp
    /\ ret = args.periods[2].budget

\* C6: _anyCommonPrefixes is true exactly when two distinct positions hold
\* addresses one of which is a prefix of the other, so every permutation of
\* the list gives the same answer.
AnyCommonPrefixesIsPairwise ==
    pc = "returned" =>
        /\ ret = (\E i, j \in 1..Len(args.addresses) :
                     /\ i # j
                     /\ \/ IsPrefixOf(args.addresses[i], args.addresses[j])
                        \/ IsPrefixOf(args.addresses[j], args.addresses[i]))
        /\ \A l \in Reorderings(args.addresses) : AnyCommonPrefixes(l) = ret

\* The only related pair has the shorter address first.
AnyCommonPrefixesWitness ==
    /\ pc = "returned"
    /\ ret = TRUE
    /\ Len(args.addresses) = 3
    /\ \A i, j \in 1..3 :
           (i # j /\ IsPrefixOf(args.addresses[i], args.addresses[j]))
               => (i = 1 /\ j = 3)

\* C7 as claimed: the coefficient is greater than 0 and at most 1.
NormalizerInHalfOpenRange ==
    pc = "returned" => (Lt(Num(0), ret) /\ Le(ret, Num(1)))

\* C7 amended: the coefficient is at least 0 and at most 1, and it is 0
\* exactly when the budget is 0 and the total weight is positive.
NormalizerInClosedRange ==
    pc = "returned" =>
        /\ Le(Num(0), ret)
        /\ Le(ret, Num(1))
        /\ (ret = Num(0)) <=>
               (args.budget = Num(0) /\ Lt(Num(0), TotalWeight(args.aws)))

\* A budget of 0 against a positive total gives the coefficient 0.
NormalizerZeroWitness ==
    /\ pc = "returned"
    /\ args.budget = Num(0)
    /\ Len(args.aws) = 2
    /\ ret = Num(0)

\* ---- applyBudget ----
PrefixConflict(p) ==
    \E i, j \in 1..Len(p.entries) :
        /\ i # j
        /\ \/ IsPrefixOf(p.entries[i].prefix, p.entries[j].prefix)
           \/ IsPrefixOf(p.entries[j].prefix, p.entries[i].prefix)

ValidPolicy(p) ==
    /\ ~PrefixConflict(p)
    /\ p.intervalLength = "WEEKLY"
    /\ \A k \in 1..Len(p.entries) : NonDecreasing(p.entries[k].periods)

\* The weight a mapping gives an address: its entry, or 1 when it has none.
WeightOf(weights, a) ==
    IF a \in DOMAIN weights.nodeWeights THEN weights.nodeWeights[a] ELSE Num(1)

RECURSIVE TotalOf(_, _)
TotalOf(weights, S) ==
    IF S = {} THEN Num(0)
    ELSE LET a == CHOOSE x \in S : TRUE IN
         Add(WeightOf(weights, a), TotalOf(weights, S \ {a}))

Buckets == LET partition == PartitionGraph(wg.graph) IN
           {partition[k] : k \in 1..Len(partition)}

\* The addresses of the bucket's nodes that lie under the prefix.
Matching(bucket, prefix) ==
    {bucket.nodes[k].address : k \in
        {m \in 1..Len(bucket.nodes) : IsPrefixOf(prefix, bucket.nodes[m].address)}}

BudgetAt(entry, bucket) ==
    FindCurrentBudget(entry.periods, bucket.interval.startTimeMs)

EntriesOf(p) == {p.entries[k] : k \in 1..Len(p.entries)}

\* C1: in the returned graph, for every entry and every bucket, the total
\* weight of the bucket's nodes under the entry's prefix is at most the
\* budget resolved at the bucket's start, and equals it when the input
\* total exceeded it.
BucketTotalsWithinBudget ==
    pc = "done" =>
        \A entry \in EntriesOf(budget) : \A bucket \in Buckets :
            LET S == Matching(bucket, entry.prefix)
                b == BudgetAt(entry, bucket)
            IN /\ Le(TotalOf(result.weights, S), b)
               /\ Lt(b, TotalOf(wg.weights, S)) => TotalOf(result.weights, S) = b

\* One entry, two buckets under a finite budget: one over it and cut down to
\* it, the other under it and left with its slack.
BucketTotalsWitness ==
    /\ pc = "done"
    /\ \E entry \in EntriesOf(budget) : \E over, under \in Buckets :
           /\ Lt(BudgetAt(entry, over),
                 TotalOf(wg.weights, Matching(over, entry.prefix)))
           /\ BudgetAt(entry, under) # Infinity
           /\ Matching(under, entry.prefix) # {}
           /\ Lt(TotalOf(wg.weights, Matching(under, entry.prefix)),
                 BudgetAt(entry, under))
           /\ Lt(TotalOf(result.weights, Matching(under, entry.prefix)),
                 BudgetAt(entry, under))

\* The bucket and entry of a node are within budget, or no entry covers it.
Unconstrained(a) ==
    \A entry \in EntriesOf(budget) : \A bucket \in Buckets :
        a \in Matching(bucket, entry.prefix) =>
            Le(TotalOf(wg.weights, Matching(bucket, entry.prefix)),
               BudgetAt(entry, bucket))

\* C2: an address whose bucket total is within the resolved budget of its
\* entry, or which no entry's prefix covers, has the same weight entry in
\* the returned mapping as in the input, and gains none if it had none.
WithinBudgetUnchanged ==
    pc = "done" =>
        \A a \in NodeAddrs :
            Unconstrained(a) =>
                /\ (a \in DOMAIN result.weights.nodeWeights)
                       <=> (a \in DOMAIN wg.weights.nodeWeights)
                /\ Get(result.weights.nodeWeights, a)
                       = Get(wg.weights.nodeWeights, a)

\* A node without a weight entry sits in a bucket whose entry has not started
\* yet, while a node of the same entry in another bucket is rescaled.
WithinBudgetWitness ==
    /\ pc = "done"
    /\ \E entry \in EntriesOf(budget) : \E quiet, cut \in Buckets :
        \E a \in Matching(quiet, entry.prefix) :
           /\ BudgetAt(entry, quiet) = Infinity
           /\ a \notin DOMAIN wg.weights.nodeWeights
           /\ a \notin DOMAIN result.weights.nodeWeights
           /\ Lt(BudgetAt(entry, cut),
                 TotalOf(wg.weights, Matching(cut, entry.prefix)))

\* C3: no step of applyBudget changes the input graph, its weight mapping or
\* the policy, whether the call returns or throws; what is returned is the
\* copied mapping.
InputsNeverChange ==
    [][/\ wg' = wg
       /\ budget' = budget
       /\ pc' = "done" => result'.weights = newWeights']_vars

\* A call returned a mapping that differs from the input mapping.
InputsNeverChangeWitness ==
    /\ pc = "done"
    /\ result.weights # wg.weights
    /\ Len(reweighting) >= 2

\* C4: applyBudget returns a graph exactly for the valid policies, and every
\* other call throws an error that matches a defect of the policy.
ReturnsIffValidPolicy ==
    /\ pc \in {"start", "entries", "done", "failed"}
    /\ pc \in {"start", "entries"} => result = Null
    /\ pc = "entries" => entryIdx \in 1..(Len(budget.entries) + 1)
    /\ pc = "done" => (ValidPolicy(budget) /\ result.kind = "ok")
    /\ pc = "failed" =>
           /\ ~ValidPolicy(budget)
           /\ result.kind = "error"
           /\ result.message \in {"budget prefix conflict detected",
                                  "non-weekly budgets not supported",
                                  "periods out-of-order"}
           /\ result.message = "budget prefix conflict detected"
                  => PrefixConflict(budget)
           /\ result.message = "non-weekly budgets not supported"
                  => budget.intervalLength # "WEEKLY"
           /\ result.message = "periods out-of-order"
                  => \E entry \in EntriesOf(budget) :
                         /\ entry.prefix = result.prefix
                         /\ ~NonDecreasing(entry.periods)

\* The periods out-of-order error on the empty graph, naming the second entry.
ReturnsIffValidWitness ==
    /\ pc = "failed"
    /\ DOMAIN wg.graph = {}
    /\ result.message = "periods out-of-order"
    /\ Len(budget.entries) = 2
    /\ result.prefix = budget.entries[2].prefix

\* C8: in a bucket whose total under an entry's prefix exceeds the resolved
\* budget, every address under the prefix gets its input weight (1 if unset)
\* times budget / total as its weight in the returned mapping.
OverBudgetScaledUniformly ==
    pc = "done" =>
        \A entry \in EntriesOf(budget) : \A bucket \in Buckets :
            LET S == Matching(bucket, entry.prefix)
                b == BudgetAt(entry, bucket)
                total == TotalOf(wg.weights, S)
            IN Lt(b, total) =>
                   \A a \in S :
                       /\ a \in DOMAIN result.weights.nodeWeights
                       /\ result.weights.nodeWeights[a]
                              = Mul(WeightOf(wg.weights, a), Div(b, total))

\* Two addresses of one bucket, one with weight 2 and one without an entry,
\* are both scaled by a coefficient strictly between 0 and 1.
OverBudgetWitness ==
    /\ pc = "done"
    /\ \E entry \in EntriesOf(budget) : \E bucket \in Buckets :
        \E a, c \in Matching(bucket, entry.prefix) :
           /\ wg.weights.nodeWeights = (a :> Num(2))
           /\ Lt(Num(0), BudgetAt(entry, bucket))
           /\ Lt(BudgetAt(entry, bucket),
                 TotalOf(wg.weights, Matching(bucket, entry.prefix)))
           /\ Lt(WeightOf(result.weights, c), WeightOf(result.weights, a))
           /\ Lt(WeightOf(result.weights, c), Num(1))

IsCheck(e) == e.op \in {"_anyCommonPrefixes", "intervalLength", "inSortedOrder"}
IsLookup(e) == e.op \in {"_findCurrentBudget", "_computeWeightNormalizer"}

\* C9 as claimed: every check of the policy, the period-order check of every
\* entry included, is over before any budget is resolved or any normalizer
\* computed.
AllChecksBeforeAnyLookup ==
    \A p, q \in 1..Len(log) : (IsLookup(log[p]) /\ IsCheck(log[q])) => q < p

\* C9 amended: the prefix-conflict check and the interval-length check are
\* over before any budget is resolved or normalizer computed; the
\* period-order check of an entry is over before a budget is resolved or a
\* normalizer computed for that entry; and all checks, of every entry, are
\* over before a weight is written.
ChecksBeforeOwnLookupsAndWrites ==
    /\ \A p \in 1..Len(log) :
           IsLookup(log[p]) =>
               /\ p > 2
               /\ log[1].op = "_anyCommonPrefixes"
               /\ log[2].op = "intervalLength"
               /\ \E q \in 1..(p - 1) :
                      /\ log[q].op = "inSortedOrder"
                      /\ log[q].prefix = log[p].prefix
    /\ \A p \in 1..Len(log) :
           log[p].op = "set" =>
               /\ \A q \in 1..Len(log) : (IsCheck(log[q]) \/ IsLookup(log[q])) => q < p
               /\ \A entry \in EntriesOf(budget) :
                      \E q \in 1..(p - 1) :
                          /\ log[q].op = "inSortedOrder"
                          /\ log[q].prefix = entry.prefix

\* Two entries on a graph with nodes: the second entry's periods are checked
\* after the first entry's budget was resolved, and weights are written.
ChecksOrderWitness ==
    /\ pc = "done"
    /\ Len(budget.entries) = 2
    /\ \E p, q, r \in 1..Len(log) :
           /\ p < q /\ q < r
           /\ log[p].op = "_computeWeightNormalizer"
           /\ log[q].op = "inSortedOrder"
           /\ log[r].op = "set"

\* C10: the Reweight records computed over all entries and buckets hold each
\* address at most once.
ReweightingHasNoDuplicates ==
    \A i, j \in 1..Len(reweighting) :
        reweighting[i].address = reweighting[j].address => i = j

\* Both entries of a policy put records into the reweighting, for nodes of
\* the same bucket.
ReweightingWitness ==
    /\ pc = "done"
    /\ Len(budget.entries) = 2
    /\ Len(reweighting) = 2
    /\ Cardinality(Buckets) = 1
    /\ reweighting[1].weight # reweighting[2].weight

(********************* applyBudget on its own result ***********************)
\* The caller hands the returned graph to applyBudget again, with the same
\* policy.  args keeps the first call's input and returned mappings.
ApplyAgain ==
    /\ pc = "done"
    /\ ret = Idle
    /\ ret' = "second"
    /\ args' = [input |-> wg.weights, first |-> result.weights]
    /\ wg' = [graph |-> result.graph, weights |-> result.weights]
    /\ pc' = "start"
    /\ entryIdx' = 0
    /\ reweighting' = <<>>
    /\ newWeights' = Null
    /\ result' = Null
    /\ log' = <<>>
    /\ UNCHANGED budget

NextTwice == Validate \/ ReweightEntry \/ Return \/ ApplyAgain

SpecTwice == Init /\ [][NextTwice]_vars

\* C11: applying the same policy to the graph applyBudget returned gives a
\* weight mapping equal to the first result, and records no reweighting.
SecondApplicationChangesNothing ==
    (ret = "second" /\ pc \in {"done", "failed"}) =>
        /\ pc = "done"
        /\ reweighting = <<>>
        /\ result.weights = args.first

\* The first application rescaled the weights of two nodes, and the second
\* returned them as they were.
SecondApplicationWitness ==
    /\ ret = "second"
    /\ pc = "done"
    /\ Len(budget.entries) = 2
    /\ \A a \in NodeAddrs :
           /\ a \in DOMAIN args.input.nodeWeights
           /\ args.first.nodeWeights[a] # args.input.nodeWeights[a]
           /\ Lt(Num(0), args.first.nodeWeights[a])
    /\ result.weights = args.first

====
